---- MODULE Spec2Model ----
(***************************************************************************)
(* Session wrappers of aom-rs around the native AV1 engine:                *)
(*   src/src/decoder.rs  AV1Decoder<T>  new / decode / flush / get_frame   *)
(*   src/src/encoder.rs  AV1EncoderConfig, AV1Encoder  new / control /     *)
(*                       encode / flush / get_packet, AOMPacket::new       *)
(* The wrapper methods are translated statement by statement.  The native  *)
(* engine behind the aom_codec_* calls is the environment: every result    *)
(* code and every output list the ABI allows is drawn with \E.             *)
(***************************************************************************)
EXTENDS Integers, Sequences, FiniteSets, TLC

\* ---------------------------------------------------------------- bounds
MaxOut == 2
MaxPtr == 2
MaxErr == 2
MaxPush == 3
MaxDim == 2

\* ------------------------------------------------------------- constants
AOM_CODEC_OK == 0
NULL == 0

ErrCodes == 1..MaxErr
Codes == {AOM_CODEC_OK} \cup ErrCodes
Ptrs == 1..MaxPtr
ImgFmts == {"I420", "OTHER"}

VARIABLES
    session,   \* which session object the behaviour drives: "decoder" or "encoder"
    dState,    \* decoder: "none", "alive", "failed", "panicked", "crashed", "released"
    dIter,     \* AV1Decoder.iter: NULL or the index the engine last wrote
    dStale,    \* a native input call happened since dIter was written
    dList,     \* engine: user_priv of each frame available for display
    dHeld,     \* engine: user pointers of inputs accepted but not yet shown
    own,       \* heap: who owns each user-data box
    dDestroy,  \* number of aom_codec_destroy calls on the decoder context
    drain,     \* what the drain sequence since the last input call has yielded
    cfg,       \* AV1EncoderConfig: "none", "ok", "failed"
    eState,    \* encoder: "none", "alive", "failed", "panicked", "released"
    eIter,     \* AV1Encoder.iter
    eStale,    \* a native input call happened since eIter was written
    eList,     \* engine: number of packets in the current output list
    eHeld,     \* engine: pictures accepted but not yet output
    eDestroy,  \* number of aom_codec_destroy calls on the encoder context
    eDrain,    \* what the encoder's drain since the last input call has yielded
    pipe,      \* the encode-then-decode run of tests::decode
    kept,      \* an item a drain call returned and the caller still holds
    last       \* the last wrapper call: arguments, native call, result

decVars == <<dState, dIter, dStale, dList, dHeld, own, dDestroy, drain>>
encVars == <<cfg, eState, eIter, eStale, eList, eHeld, eDestroy, eDrain>>
vars == <<session, decVars, encVars, pipe, kept, last>>

\* ------------------------------------------------------------ call record
NoCall ==
    [op |-> "none", ncalls |-> 0, code |-> AOM_CODEC_OK, ret |-> "none",
     err |-> AOM_CODEC_OK, curIn |-> NULL, staleIn |-> FALSE,
     data |-> "na", user |-> NULL, freed |-> "no", fmt |-> "na", checked |-> FALSE,
     tag |-> "na", kind |-> "na", len |-> 0]

NoDrain ==
    [by |-> "none", ok |-> FALSE, v |-> NULL, frames |-> 0, withV |-> 0,
     other |-> 0, done |-> FALSE, want |-> 0, second |-> FALSE]

\* no item held by the caller
NoItem == [how |-> "none", nat |-> "none"]

\* a native call on the session ends the validity of the record an earlier
\* drain call exposed
Invalidate(k) ==
    IF k.how = "none" THEN k ELSE [k EXCEPT !.nat = "gone"]

\* what reading a held item gives: owned bytes stay, bytes behind a native
\* pointer are there only while the native record is
Read(k) ==
    IF k.how = "copy" \/ k.nat = "live" THEN "intact" ELSE "dangling"

\* the result of `match ret { OK => Ok(..), _ => Err(ret) }`
match_ret(ret) ==
    IF ret = AOM_CODEC_OK THEN [ret |-> "Ok", err |-> AOM_CODEC_OK]
    ELSE [ret |-> "Err", err |-> ret]

\* ------------------------------------------------------------------ heap
\* Box::into_raw(Box::new(v)): the next box not yet allocated
FreshPtr ==
    IF \E p \in Ptrs : own[p] = "unalloc"
    THEN CHOOSE p \in Ptrs : own[p] = "unalloc" /\ \A q \in Ptrs : (q < p => own[q] # "unalloc")
    ELSE NULL

\* Box::from_raw(p): the box comes back from the engine to the caller (returned, or
\* dropped).  Taking back a box the engine does not hold any more makes a second
\* owner of one allocation.
Reclaim(o, p) ==
    IF p = NULL THEN o
    ELSE [o EXCEPT ![p] = IF o[p] = "native" THEN "back" ELSE "double"]

\* ------------------------------------------------ native decoder (environment)
\* the engine buffers fewer inputs than it can show at once
MaxHeld == MaxOut - 1

\* aom_codec_decode returned OK for an input carrying user pointer p: the input is
\* either buffered or shown; when shown, the one frame of this input carries p.
NativeDecodeOk(p) ==
    {[list |-> <<>>, held |-> Append(dHeld, p)] : x \in {y \in {0} : Len(dHeld) < MaxHeld}}
    \cup
    UNION {{[list |-> [i \in 1..n |-> IF i = j THEN p ELSE NULL], held |-> dHeld]
              : j \in 1..n} : n \in 1..MaxOut}

\* aom_codec_decode(NULL, 0) returned OK: everything buffered is shown.
NativeFlushOk ==
    {[list |-> dHeld, held |-> <<>>]}

\* aom_codec_decode returned an error: the list of the previous input either
\* stays or is dropped; the user pointer is not kept.
NativeDecodeErr ==
    {[list |-> dList, held |-> dHeld], [list |-> <<>>, held |-> dHeld]}

\* aom_codec_get_frame(ctx, &iter): the next frame of the list, or null; the
\* image's format is whatever the engine decoded
NativeGetFrame(iter, fmt) ==
    IF iter < Len(dList)
    THEN [img |-> [user_priv |-> dList[iter + 1], fmt |-> fmt], null |-> FALSE,
          iter |-> iter + 1]
    ELSE [img |-> [user_priv |-> NULL, fmt |-> "I420"], null |-> TRUE, iter |-> iter]

\* ------------------------------------------------------------ decoder.rs
\* frame_from_img: only I420 is mapped, anything else panics
frame_from_img(img) ==
    IF img.fmt = "I420" THEN "YUV420" ELSE "panic"

\* a frame whose planes point into the native image
frame_planes_alias == "alias"

\* frame_from_img, lines 29-34: the planes are copied into the frame's own
\* buffers by copy_from_raw_parts
frame_planes == "copy"

\* a frame_from_img that takes the width from the height and the reverse
frame_from_img_info_swapped(img) == [width |-> img.d_h, height |-> img.d_w]

\* frame_from_img, lines 22-27: VideoInfo.width/height come from img.d_w/d_h
frame_from_img_info(img) == [width |-> img.d_w, height |-> img.d_h]

\* AV1Decoder::new: `dec` is built before the init call and is a local of new(),
\* so returning Err(ret) drops it
Dec_new_drops(ret) == ret # AOM_CODEC_OK

Dec_new(ret) ==
    /\ session = "decoder"
    /\ dState = "none"
    /\ dState' = IF ret = AOM_CODEC_OK THEN "alive" ELSE "failed"
    /\ dIter' = NULL
    /\ dStale' = FALSE
    /\ dDestroy' = IF Dec_new_drops(ret) THEN dDestroy + 1 ELSE dDestroy
    /\ last' = [NoCall EXCEPT !.op = "dec_new", !.ncalls = 1, !.code = ret,
                  !.ret = match_ret(ret).ret, !.err = match_ret(ret).err]
    /\ UNCHANGED <<session, pipe, encVars, dList, dHeld, own, drain, kept>>

\* a decode that resets the cursor only when the engine accepted the input
decode_iter_keep(ret) == IF ret = AOM_CODEC_OK THEN NULL ELSE dIter

\* decode, line 98: self.iter = ptr::null()
decode_iter(ret) == NULL

\* a decode whose error path forgets the box
decode_reclaims_never(ret, priv_data) == "no"

\* decode, lines 100-106: what Box::from_raw is applied to on the error path
decode_reclaims(ret, priv_data) ==
    IF ret = AOM_CODEC_OK THEN "no"
    ELSE IF priv_data = NULL THEN "null" ELSE "box"

\* decode, lines 88-95: the arguments of aom_codec_decode; data.as_ptr() of a
\* slice is never null, also when the slice is empty
decode_call(len, priv_data) ==
    [data |-> "nonnull", len |-> len, user |-> priv_data]

\* payload lengths: an empty slice and a non-empty one
Lens == {0, 1}

\* AV1Decoder::decode(data, private).  Box::from_raw(null) is undefined: it either
\* does nothing or takes the process down.
Dec_decode(len, has, ret) ==
    /\ session = "decoder"
    /\ dState = "alive"
    /\ has => FreshPtr # NULL
    /\ LET priv_data == IF has THEN FreshPtr ELSE NULL
           rec == decode_reclaims(ret, priv_data)
           call == decode_call(len, priv_data)
       IN  \E eng \in (IF ret = AOM_CODEC_OK THEN NativeDecodeOk(priv_data)
                       ELSE NativeDecodeErr) :
           \E crash \in (IF rec = "null" THEN BOOLEAN ELSE {FALSE}) :
           /\ dList' = eng.list
           /\ dHeld' = eng.held
           /\ dIter' = decode_iter(ret)
           /\ dStale' = (decode_iter(ret) # NULL)
           /\ own' = IF priv_data = NULL THEN own
                     ELSE [own EXCEPT ![priv_data] =
                             IF ret = AOM_CODEC_OK THEN "native"
                             ELSE IF rec = "box" THEN "back" ELSE "leaked"]
           /\ dState' = IF crash THEN "crashed" ELSE "alive"
           /\ drain' = [NoDrain EXCEPT !.by = "decode", !.ok = (ret = AOM_CODEC_OK),
                          !.v = priv_data]
           /\ last' = [NoCall EXCEPT !.op = "decode", !.ncalls = 1, !.code = ret,
                         !.ret = IF crash THEN "Crash" ELSE match_ret(ret).ret,
                         !.err = IF crash THEN AOM_CODEC_OK ELSE match_ret(ret).err,
                         !.curIn = dIter, !.data = call.data, !.len = call.len,
                         !.user = call.user, !.freed = rec]
    /\ kept' = Invalidate(kept)
    /\ UNCHANGED <<session, pipe, encVars, dDestroy>>

\* a flush that leaves the cursor where the last drain left it
Dec_flush_iter_stay(ret) == dIter

\* flush, line 128: self.iter = ptr::null()
Dec_flush_iter(ret) == NULL

\* a flush that passes a dangling non-null pointer, as an empty slice would
flush_call_dangling == [data |-> "nonnull", len |-> 0, user |-> NULL]

\* flush, lines 119-126: aom_codec_decode(ctx, ptr::null(), 0, ptr::null_mut())
flush_call == [data |-> "null", len |-> 0, user |-> NULL]

\* AV1Decoder::flush
Dec_flush(ret) ==
    /\ session = "decoder"
    /\ dState = "alive"
    /\ \E eng \in (IF ret = AOM_CODEC_OK THEN NativeFlushOk ELSE NativeDecodeErr) :
         /\ dList' = eng.list
         /\ dHeld' = eng.held
    /\ dIter' = Dec_flush_iter(ret)
    /\ dStale' = (Dec_flush_iter(ret) # NULL)
    /\ drain' = [NoDrain EXCEPT !.by = "flush", !.ok = (ret = AOM_CODEC_OK),
                   !.want = Len(dHeld), !.second = (drain.by = "flush" /\ drain.ok)]
    /\ last' = [NoCall EXCEPT !.op = "flush", !.ncalls = 1, !.code = ret,
                  !.ret = match_ret(ret).ret, !.err = match_ret(ret).err,
                  !.curIn = dIter, !.data = flush_call.data, !.len = flush_call.len,
                  !.user = flush_call.user]
    /\ kept' = Invalidate(kept)
    /\ UNCHANGED <<session, pipe, encVars, dState, own, dDestroy>>

\* a get_frame that never hands the user pointer back
get_frame_priv_none(user_priv) == NULL

\* get_frame, lines 151-156: Some(Box::from_raw(p)) unless user_priv is null
get_frame_priv(user_priv) == user_priv

\* AV1Decoder::get_frame.  A second Box::from_raw of one allocation is undefined:
\* the call either goes on with the aliased box or takes the process down.
Dec_get_frame ==
    /\ session = "decoder"
    /\ dState = "alive"
    /\ \E fmt \in (IF dIter < Len(dList) THEN ImgFmts ELSE {"I420"}) :
       LET r == NativeGetFrame(dIter, fmt)
           p == IF r.null THEN NULL ELSE get_frame_priv(r.img.user_priv)
           f == frame_from_img(r.img)
           panic == ~r.null /\ f = "panic"
           twice == p # NULL /\ own[p] # "native"
       IN  \E crash \in (IF twice THEN BOOLEAN ELSE {FALSE}) :
           /\ IF r.null \/ panic \/ crash
              THEN kept' = Invalidate(kept)
              ELSE \E keep \in (IF kept.how = "none" THEN {TRUE} ELSE BOOLEAN) :
                     kept' = IF keep THEN [how |-> frame_planes, nat |-> "live"]
                             ELSE Invalidate(kept)
           /\ dIter' = r.iter
           /\ dStale' = IF r.null THEN dStale ELSE FALSE
           /\ own' = Reclaim(own, p)
           /\ dState' = IF crash THEN "crashed"
                        ELSE IF panic THEN "panicked" ELSE "alive"
           /\ drain' = IF r.null THEN [drain EXCEPT !.done = TRUE]
                       ELSE IF panic \/ crash THEN drain
                       ELSE [drain EXCEPT
                               !.frames = @ + 1,
                               !.withV = IF p # NULL /\ p = drain.v THEN @ + 1 ELSE @,
                               !.other = IF p # NULL /\ p # drain.v THEN @ + 1 ELSE @]
           /\ last' = [NoCall EXCEPT !.op = "get_frame", !.ncalls = 1,
                         !.ret = IF crash THEN "Crash"
                                 ELSE IF r.null THEN "None"
                                 ELSE IF panic THEN "Panic" ELSE "Some",
                         !.curIn = dIter, !.staleIn = dStale,
                         !.user = p, !.fmt = IF r.null THEN "na" ELSE r.img.fmt]
    /\ UNCHANGED <<session, pipe, encVars, dList, dHeld, dDestroy>>

\* a Drop that lets the context go without aom_codec_destroy
Dec_drop_forgets ==
    /\ session = "decoder"
    /\ dState \in {"alive", "panicked"}
    /\ dState' = "released"
    /\ last' = [NoCall EXCEPT !.op = "dec_drop"]
    /\ kept' = Invalidate(kept)
    /\ UNCHANGED <<session, pipe, encVars, dIter, dStale, dList, dHeld, own, dDestroy, drain>>

\* impl Drop for AV1Decoder: runs when the owner lets go, also while unwinding
Dec_drop ==
    /\ session = "decoder"
    /\ dState \in {"alive", "panicked"}
    /\ dState' = "released"
    /\ dDestroy' = dDestroy + 1
    /\ last' = [NoCall EXCEPT !.op = "dec_drop", !.ncalls = 1]
    /\ kept' = Invalidate(kept)
    /\ UNCHANGED <<session, pipe, encVars, dIter, dStale, dList, dHeld, own, drain>>

\* ------------------------------------------------ native encoder (environment)
PktKinds == {"FRAME_PKT", "STATS_PKT", "FPMB_STATS_PKT", "PSNR_PKT", "CUSTOM_PKT", "UNKNOWN"}

\* aom_codec_encode(img) returned OK: the picture is buffered, or packets come out
NativeEncodeOk ==
    {[list |-> 0, held |-> eHeld + 1] : x \in {y \in {0} : eHeld < MaxHeld}}
    \cup
    {[list |-> n, held |-> eHeld] : n \in 1..MaxOut}

\* aom_codec_encode(NULL) returned OK: one packet list for all that was buffered
NativeEncFlushOk ==
    {[list |-> eHeld, held |-> 0]}

\* aom_codec_encode returned an error: the previous list stays or is dropped
NativeEncodeErr ==
    {[list |-> eList, held |-> eHeld], [list |-> 0, held |-> eHeld]}

\* aom_codec_get_cx_data(ctx, &iter): the next packet of the list, or null; the
\* record's kind is whatever the engine produced
NativeGetCxData(iter, kind) ==
    IF iter < eList
    THEN [kind |-> kind, null |-> FALSE, iter |-> iter + 1]
    ELSE [kind |-> "FRAME_PKT", null |-> TRUE, iter |-> iter]

\* ------------------------------------------------------------ encoder.rs
\* an AOMPacket::new whose two statistics arms are exchanged
AOMPacket_new_swapped(kind) ==
    CASE kind = "FRAME_PKT" -> "Packet"
      [] kind = "STATS_PKT" -> "MBStats"
      [] kind = "FPMB_STATS_PKT" -> "Stats"
      [] kind = "PSNR_PKT" -> "PSNR"
      [] kind = "CUSTOM_PKT" -> "Custom"
      [] OTHER -> "panic"

\* AOMPacket::new: the variant is chosen by pkt.kind, any other kind panics
AOMPacket_new(kind) ==
    CASE kind = "FRAME_PKT" -> "Packet"
      [] kind = "STATS_PKT" -> "Stats"
      [] kind = "FPMB_STATS_PKT" -> "MBStats"
      [] kind = "PSNR_PKT" -> "PSNR"
      [] kind = "CUSTOM_PKT" -> "Custom"
      [] OTHER -> "panic"

\* a to_buffer that wraps the native buffer without copying
to_buffer_alias == "alias"

\* to_buffer, lines 33-40: a Vec of its own, filled by ptr::copy_nonoverlapping
to_buffer == "copy"

\* AOMPacket::new, lines 44-80: where the bytes of the returned value live; the
\* frame arm copies into Packet.data, the buffer arms go through to_buffer, the
\* PSNR arm copies three fields by value
AOMPacket_data(kind) ==
    CASE kind = "FRAME_PKT" -> "copy"
      [] kind \in {"STATS_PKT", "FPMB_STATS_PKT", "CUSTOM_PKT"} -> to_buffer
      [] kind = "PSNR_PKT" -> "copy"
      [] OTHER -> "none"

\* map_formaton: YUV420 becomes I420, anything else is unimplemented!()
map_formaton(fmt) ==
    IF fmt = "YUV420" THEN "I420" ELSE "panic"

\* img_from_frame: the descriptor starts zeroed (format 0) and the format is
\* mapped only inside `if let MediaKind::Video`
img_from_frame(frame) ==
    IF frame.kind = "video"
    THEN [fmt |-> map_formaton(frame.fmt), checked |-> TRUE]
    ELSE [fmt |-> "NONE", checked |-> FALSE]

\* img_from_frame, lines 107-108: the display size of the descriptor
img_from_frame_size(v) == [d_w |-> v.width, d_h |-> v.height]

Frames ==
    [kind : {"video"}, fmt : {"YUV420", "OTHER"}, pts : {"some", "none"}]
    \cup [kind : {"audio"}, fmt : {"na"}, pts : {"some", "none"}]

\* AV1EncoderConfig::new
Cfg_new(ret) ==
    /\ session = "encoder"
    /\ cfg = "none"
    /\ cfg' = IF ret = AOM_CODEC_OK THEN "ok" ELSE "failed"
    /\ last' = [NoCall EXCEPT !.op = "cfg_new", !.ncalls = 1, !.code = ret,
                  !.ret = match_ret(ret).ret, !.err = match_ret(ret).err]
    /\ UNCHANGED <<session, pipe, decVars, eState, eIter, eStale, eList, eHeld, eDestroy, eDrain, kept>>

\* AV1Encoder::new: on Err(ret) no AV1Encoder value exists, `ctx` is a plain local
Enc_new_drops(ret) == FALSE

\* AV1Encoder::new (and AV1EncoderConfig::get_encoder, which only calls it)
Enc_new(ret) ==
    /\ session = "encoder"
    /\ cfg = "ok"
    /\ eState = "none"
    /\ eState' = IF ret = AOM_CODEC_OK THEN "alive" ELSE "failed"
    /\ eIter' = NULL
    /\ eStale' = FALSE
    /\ eDestroy' = IF Enc_new_drops(ret) THEN eDestroy + 1 ELSE eDestroy
    /\ last' = [NoCall EXCEPT !.op = "enc_new", !.ncalls = 1, !.code = ret,
                  !.ret = match_ret(ret).ret, !.err = match_ret(ret).err]
    /\ UNCHANGED <<session, pipe, decVars, cfg, eList, eHeld, eDrain, kept>>

\* a control that resets the cursor as the input calls do
control_iter_reset(ret) == NULL

\* control never touches self.iter
control_iter(ret) == eIter

\* AV1Encoder::control
Enc_control(ret) ==
    /\ session = "encoder"
    /\ eState = "alive"
    /\ eIter' = control_iter(ret)
    /\ eStale' = IF control_iter(ret) = eIter THEN eStale ELSE FALSE
    /\ last' = [NoCall EXCEPT !.op = "control", !.ncalls = 1, !.code = ret,
                  !.ret = match_ret(ret).ret, !.err = match_ret(ret).err,
                  !.curIn = eIter]
    /\ UNCHANGED <<session, pipe, decVars, cfg, eState, eList, eHeld, eDestroy, eDrain, kept>>

\* an encode that resets the cursor only when the engine accepted the picture
encode_iter_keep(ret) == IF ret = AOM_CODEC_OK THEN NULL ELSE eIter

\* encode, line 208: self.iter = ptr::null()
encode_iter(ret) == NULL

\* AV1Encoder::encode: img_from_frame and frame.t.pts.unwrap() are evaluated
\* before the native call and either of them may panic
Enc_encode(frame, ret) ==
    /\ session = "encoder"
    /\ eState = "alive"
    /\ LET img == img_from_frame(frame)
           panic == img.fmt = "panic" \/ frame.pts = "none"
       IN  IF panic
           THEN /\ ret = AOM_CODEC_OK
                /\ eState' = "panicked"
                /\ last' = [NoCall EXCEPT !.op = "encode", !.ret = "Panic",
                              !.curIn = eIter, !.fmt = img.fmt,
                              !.checked = img.checked]
                /\ UNCHANGED <<eIter, eStale, eList, eHeld, eDrain, kept>>
           ELSE /\ \E eng \in (IF ret = AOM_CODEC_OK THEN NativeEncodeOk
                               ELSE NativeEncodeErr) :
                     /\ eList' = eng.list
                     /\ eHeld' = eng.held
                /\ eIter' = encode_iter(ret)
                /\ eStale' = (encode_iter(ret) # NULL)
                /\ eState' = "alive"
                /\ kept' = Invalidate(kept)
                /\ eDrain' = [NoDrain EXCEPT !.by = "encode", !.ok = (ret = AOM_CODEC_OK)]
                /\ last' = [NoCall EXCEPT !.op = "encode", !.ncalls = 1, !.code = ret,
                              !.ret = match_ret(ret).ret, !.err = match_ret(ret).err,
                              !.curIn = eIter, !.data = "nonnull", !.fmt = img.fmt,
                              !.checked = img.checked]
    /\ UNCHANGED <<session, pipe, decVars, cfg, eDestroy>>

\* flush, line 234: self.iter = ptr::null()
Enc_flush_iter(ret) == NULL

\* AV1Encoder::flush
Enc_flush(ret) ==
    /\ session = "encoder"
    /\ eState = "alive"
    /\ \E eng \in (IF ret = AOM_CODEC_OK THEN NativeEncFlushOk ELSE NativeEncodeErr) :
         /\ eList' = eng.list
         /\ eHeld' = eng.held
    /\ eIter' = Enc_flush_iter(ret)
    /\ eStale' = (Enc_flush_iter(ret) # NULL)
    /\ eDrain' = [NoDrain EXCEPT !.by = "flush", !.ok = (ret = AOM_CODEC_OK),
                    !.want = eHeld, !.second = (eDrain.by = "flush" /\ eDrain.ok)]
    /\ last' = [NoCall EXCEPT !.op = "flush", !.ncalls = 1, !.code = ret,
                  !.ret = match_ret(ret).ret, !.err = match_ret(ret).err,
                  !.curIn = eIter, !.data = "null"]
    /\ kept' = Invalidate(kept)
    /\ UNCHANGED <<session, pipe, decVars, cfg, eState, eDestroy>>

\* AV1Encoder::get_packet
Enc_get_packet ==
    /\ session = "encoder"
    /\ eState = "alive"
    /\ \E kind \in (IF eIter < eList THEN PktKinds ELSE {"FRAME_PKT"}) :
       LET r == NativeGetCxData(eIter, kind)
           v == AOMPacket_new(r.kind)
           panic == ~r.null /\ v = "panic"
       IN  /\ IF r.null \/ panic
              THEN kept' = Invalidate(kept)
              ELSE \E keep \in (IF kept.how = "none" THEN {TRUE} ELSE BOOLEAN) :
                     kept' = IF keep THEN [how |-> AOMPacket_data(r.kind), nat |-> "live"]
                             ELSE Invalidate(kept)
           /\ eIter' = r.iter
           /\ eStale' = IF r.null THEN eStale ELSE FALSE
           /\ eState' = IF panic THEN "panicked" ELSE "alive"
           /\ eDrain' = IF r.null THEN [eDrain EXCEPT !.done = TRUE]
                        ELSE IF panic THEN eDrain
                        ELSE [eDrain EXCEPT !.frames = @ + 1]
           /\ last' = [NoCall EXCEPT !.op = "get_packet", !.ncalls = 1,
                         !.ret = IF r.null THEN "None"
                                 ELSE IF panic THEN "Panic" ELSE "Some",
                         !.curIn = eIter, !.staleIn = eStale,
                         !.kind = IF r.null THEN "na" ELSE r.kind,
                         !.tag = IF r.null \/ panic THEN "na" ELSE v]
    /\ UNCHANGED <<session, pipe, decVars, cfg, eList, eHeld, eDestroy>>

\* impl Drop for AV1Encoder
Enc_drop ==
    /\ session = "encoder"
    /\ eState \in {"alive", "panicked"}
    /\ eState' = "released"
    /\ eDestroy' = eDestroy + 1
    /\ last' = [NoCall EXCEPT !.op = "enc_drop", !.ncalls = 1]
    /\ kept' = Invalidate(kept)
    /\ UNCHANGED <<session, pipe, decVars, cfg, eIter, eStale, eList, eHeld, eDrain>>

\* ------------------------------------------- tests::decode (decoder.rs 189-235)
Dims == 1..MaxDim

\* the one-pass encoder holds back fewer pictures than the run pushes
MaxLag == MaxPush - 1

NoPipe ==
    [pc |-> "off", i |-> 0, w |-> 0, h |-> 0, g_w |-> 0, g_h |-> 0,
     lag |-> 0, pkts |-> 0, eiter |-> NULL, pw |-> 0, ph |-> 0,
     imgs |-> 0, diter |-> NULL, npkt |-> 0, out |-> 0, fw |-> 0, fh |-> 0]

\* aom_codec_encode accepted a picture: it is held back, or packets come out for
\* some of the pictures held, each a frame packet of the configured size
NativePipeEncode ==
    {[pkts |-> 0, lag |-> pipe.lag + 1] : x \in {y \in {0} : pipe.lag < MaxLag}}
    \cup
    {[pkts |-> n, lag |-> pipe.lag + 1 - n] : n \in 1..(pipe.lag + 1)}

\* aom_codec_decode accepted a packet of the encoder: a picture of the coded size
\* is shown; once one has been shown a later packet may show none
NativePipeDecode ==
    IF pipe.out = 0 THEN {1} ELSE {0, 1}

\* enc::setup(w, h, &t), enc::setup_frame(w, h, &t), AV1Decoder::new().unwrap()
Pipe_setup ==
    /\ session = "pipeline"
    /\ pipe.pc = "setup"
    /\ pipe' = [pipe EXCEPT !.pc = "encode", !.g_w = pipe.w, !.g_h = pipe.h]
    /\ UNCHANGED <<session, decVars, encVars, kept, last>>

\* for i in 0..N { e.encode(&f).unwrap(); ...
Pipe_encode ==
    /\ session = "pipeline"
    /\ pipe.pc = "encode"
    /\ pipe.i < MaxPush
    /\ LET f == [kind |-> "video", fmt |-> "YUV420", pts |-> "some"]
           img == img_from_frame(f)
           size == img_from_frame_size([width |-> pipe.w, height |-> pipe.h])
       IN  /\ img.fmt = "I420"
           /\ size.d_w = pipe.g_w /\ size.d_h = pipe.g_h
           /\ \E eng \in NativePipeEncode :
                pipe' = [pipe EXCEPT !.pc = "drain", !.i = @ + 1,
                           !.lag = eng.lag, !.pkts = eng.pkts,
                           !.eiter = encode_iter(AOM_CODEC_OK)]
    /\ UNCHANGED <<session, decVars, encVars, kept, last>>

\* loop { let p = e.get_packet(); if p.is_none() { break } else if let
\* AOMPacket::Packet(ref pkt) = p.unwrap() { ...
Pipe_get_packet ==
    /\ session = "pipeline"
    /\ pipe.pc = "drain"
    /\ IF pipe.eiter < pipe.pkts
       THEN /\ AOMPacket_new("FRAME_PKT") = "Packet"
            /\ pipe' = [pipe EXCEPT !.pc = "decode", !.eiter = @ + 1, !.npkt = 1,
                           !.pw = pipe.g_w, !.ph = pipe.g_h]
       ELSE pipe' = [pipe EXCEPT !.pc = IF pipe.i = MaxPush THEN "check" ELSE "encode"]
    /\ UNCHANGED <<session, decVars, encVars, kept, last>>

\* let _ = d.decode(&pkt.data, None).unwrap();
Pipe_decode ==
    /\ session = "pipeline"
    /\ pipe.pc = "decode"
    /\ \E n \in NativePipeDecode :
         pipe' = [pipe EXCEPT !.pc = "get_frame", !.imgs = n,
                    !.diter = decode_iter(AOM_CODEC_OK)]
    /\ UNCHANGED <<session, decVars, encVars, kept, last>>

\* if let Some(f) = d.get_frame() { out = 1; }
Pipe_get_frame ==
    /\ session = "pipeline"
    /\ pipe.pc = "get_frame"
    /\ IF pipe.diter < pipe.imgs
       THEN LET img == [d_w |-> pipe.pw, d_h |-> pipe.ph, fmt |-> "I420",
                        user_priv |-> NULL]
                v == frame_from_img_info(img)
            IN  /\ frame_from_img(img) = "YUV420"
                /\ pipe' = [pipe EXCEPT !.pc = "drain", !.diter = @ + 1, !.out = 1,
                               !.fw = v.width, !.fh = v.height]
       ELSE pipe' = [pipe EXCEPT !.pc = "drain"]
    /\ UNCHANGED <<session, decVars, encVars, kept, last>>

\* if out != 1 { panic!("No frame decoded"); }
Pipe_check ==
    /\ session = "pipeline"
    /\ pipe.pc = "check"
    /\ pipe' = [pipe EXCEPT !.pc = IF pipe.out # 1 THEN "panicked" ELSE "done"]
    /\ UNCHANGED <<session, decVars, encVars, kept, last>>

\* ------------------------------------------------------------------ spec
Init ==
    /\ session \in {"decoder", "encoder"}
    /\ dState = "none"
    /\ dIter = NULL
    /\ dStale = FALSE
    /\ dList = <<>>
    /\ dHeld = <<>>
    /\ own = [p \in Ptrs |-> "unalloc"]
    /\ dDestroy = 0
    /\ drain = NoDrain
    /\ cfg = "none"
    /\ eState = "none"
    /\ eIter = NULL
    /\ eStale = FALSE
    /\ eList = 0
    /\ eHeld = 0
    /\ eDestroy = 0
    /\ eDrain = NoDrain
    /\ kept = NoItem
    /\ pipe = NoPipe
    /\ last = NoCall

Next ==
    \/ \E ret \in Codes : Dec_new(ret)
    \/ \E len \in Lens, has \in BOOLEAN, ret \in Codes : Dec_decode(len, has, ret)
    \/ \E ret \in Codes : Dec_flush(ret)
    \/ Dec_get_frame
    \/ Dec_drop
    \/ \E ret \in Codes : Cfg_new(ret)
    \/ \E ret \in Codes : Enc_new(ret)
    \/ \E ret \in Codes : Enc_control(ret)
    \/ \E frame \in Frames, ret \in Codes : Enc_encode(frame, ret)
    \/ \E ret \in Codes : Enc_flush(ret)
    \/ Enc_get_packet
    \/ Enc_drop

Spec == Init /\ [][Next]_vars

InitPipe ==
    /\ session = "pipeline"
    /\ dState = "none" /\ dIter = NULL /\ dStale = FALSE
    /\ dList = <<>> /\ dHeld = <<>>
    /\ own = [p \in Ptrs |-> "unalloc"]
    /\ dDestroy = 0 /\ drain = NoDrain
    /\ cfg = "none" /\ eState = "none" /\ eIter = NULL /\ eStale = FALSE
    /\ eList = 0 /\ eHeld = 0 /\ eDestroy = 0 /\ eDrain = NoDrain
    /\ kept = NoItem
    /\ last = NoCall
    /\ \E w \in Dims, h \in Dims :
         pipe = [NoPipe EXCEPT !.pc = "setup", !.w = w, !.h = h]

NextPipe ==
    \/ Pipe_setup
    \/ Pipe_encode
    \/ Pipe_get_packet
    \/ Pipe_decode
    \/ Pipe_get_frame
    \/ Pipe_check

SpecPipe == InitPipe /\ [][NextPipe]_vars

\* ---------------------------------------------------------------- claims
InputOps == {"decode", "flush", "encode"}
DrainOps == {"get_frame", "get_packet"}

\* C1: when decode, flush (either session) or encode returns, with Ok or with
\* Err(code), the session's cursor is null.
C1_CursorNullAfterInput ==
    (last.op \in InputOps /\ last.ret \in {"Ok", "Err"}) =>
        IF session = "decoder" THEN dIter = NULL ELSE eIter = NULL

\* C1 witness: a decode the engine rejected, entered with a non-null cursor
C1_Witness ==
    /\ last.op = "decode" /\ last.ret = "Err"
    /\ last.curIn # NULL /\ dIter = NULL

\* C2: the cursor a drain call hands to the engine is null or was written by a
\* drain issued after the most recent native input call.
C2_NoStaleCursorDrained ==
    last.op \in DrainOps => (last.curIn = NULL \/ ~last.staleIn)

\* C2 witness: a get_packet continuing a drain with the cursor the previous
\* get_packet left
C2_Witness ==
    /\ last.op = "get_packet" /\ last.ret = "Some"
    /\ last.curIn # NULL /\ ~last.staleIn

\* C3: in the drain that follows a successful decode carrying V, no yielded frame
\* carries other data, V is yielded at most once, and once the drain has come to
\* None after at least one frame exactly one yielded frame carried V.
C3_UserDataRoundTrip ==
    (drain.by = "decode" /\ drain.ok /\ drain.v # NULL) =>
        /\ drain.other = 0
        /\ drain.withV <= 1
        /\ (drain.done /\ drain.frames >= 1) => drain.withV = 1

\* C3 witness: a drain of two frames run to None, one frame carrying V
C3_Witness ==
    /\ drain.by = "decode" /\ drain.ok /\ drain.v # NULL
    /\ drain.done /\ drain.frames = 2 /\ drain.withV = 1

C5_FailedDecodeReleases ==
    (last.op = "decode" /\ last.user # NULL /\ last.code # AOM_CODEC_OK) =>
        /\ last.ret = "Err" /\ last.err = last.code
        /\ last.freed = "box"
        /\ own[last.user] = "back"
        /\ \A i \in DOMAIN dList : dList[i] # last.user
        /\ \A i \in DOMAIN dHeld : dHeld[i] # last.user

\* C5 witness: a rejected decode that carried a box, with another box still
\* held by the engine
C5_Witness ==
    /\ last.op = "decode" /\ last.user # NULL /\ last.code = MaxErr
    /\ \E p \in Ptrs : own[p] = "native"

\* C6: a constructed session makes no destroy call while it lives and exactly
\* one when it is released.
C6_ReleaseDestroysOnce ==
    /\ dState \in {"alive", "panicked", "crashed"} => dDestroy = 0
    /\ dState = "released" => dDestroy = 1
    /\ eState \in {"alive", "panicked"} => eDestroy = 0
    /\ eState = "released" => eDestroy = 1

\* C6 witness: a decoder released after an input call the engine rejected
C6_Witness ==
    /\ dState = "released" /\ dDestroy = 1
    /\ drain.by = "decode" /\ ~drain.ok

\* C7: a constructor whose native init call failed returns that code and no
\* destroy call is made on the context.
C7_FailedNewDestroysNothing ==
    /\ dState = "failed" => dDestroy = 0
    /\ eState = "failed" => eDestroy = 0
    /\ last.op \in {"dec_new", "enc_new"} /\ last.code # AOM_CODEC_OK =>
          last.ret = "Err" /\ last.err = last.code

\* C8: a native image of another format than I420 makes get_frame panic, and a
\* descriptor reaches the native encode call only with its format checked to be
\* the supported one.
C8_FormatGate ==
    /\ (last.op = "get_frame" /\ last.fmt = "OTHER") => last.ret = "Panic"
    /\ (last.op = "encode" /\ last.ncalls = 1) => (last.checked /\ last.fmt = "I420")

\* C9: an operation that made its native call made one, and it returns Ok when
\* the code is OK and otherwise Err carrying that code.
C9_NativeCodeVerbatim ==
    last.op \in {"cfg_new", "dec_new", "enc_new", "decode", "flush", "encode", "control"} =>
        /\ last.ncalls <= 1
        /\ last.ncalls = 1 =>
              /\ last.code = AOM_CODEC_OK => last.ret = "Ok"
              /\ last.code # AOM_CODEC_OK => (last.ret = "Err" /\ last.err = last.code)

\* C10: a control call, accepted or rejected, leaves the cursor, the session
\* state and the engine's current output list as they were.
C10_ControlKeepsCursor ==
    [][last'.op = "control" =>
          /\ eIter' = eIter /\ eStale' = eStale /\ eState' = eState
          /\ eList' = eList /\ eHeld' = eHeld]_vars

\* C10 witness: a rejected control in the middle of a drain
C10_Witness ==
    /\ last.op = "control" /\ last.ret = "Err"
    /\ eIter # NULL /\ eIter < eList

\* C11: a flush the engine accepted, drained to None, yields as many frames or
\* packets as the engine had buffered when flush was called; a second accepted
\* flush with no input in between yields nothing.
C11_FlushDrainsRemainder ==
    /\ (drain.by = "flush" /\ drain.ok /\ drain.done) => drain.frames = drain.want
    /\ (drain.by = "flush" /\ drain.ok /\ drain.second) => drain.frames = 0
    /\ (eDrain.by = "flush" /\ eDrain.ok /\ eDrain.done) => eDrain.frames = eDrain.want
    /\ (eDrain.by = "flush" /\ eDrain.ok /\ eDrain.second) => eDrain.frames = 0

\* C11 witness: a decoder flush that found an input buffered, drained to None
C11_Witness ==
    /\ drain.by = "flush" /\ drain.ok /\ drain.done
    /\ drain.want >= 1 /\ drain.frames = drain.want

\* C11 witness of the second flush: drained to None with nothing yielded
C11_WitnessSecond ==
    /\ drain.by = "flush" /\ drain.ok /\ drain.second /\ drain.done

\* C12: a get_packet that obtained a native record yields the variant its
\* discriminant fixes, and for any other discriminant panics and yields no value.
C12_PacketVariantByKind ==
    (last.op = "get_packet" /\ last.kind # "na") =>
        /\ last.kind = "FRAME_PKT" => (last.ret = "Some" /\ last.tag = "Packet")
        /\ last.kind = "STATS_PKT" => (last.ret = "Some" /\ last.tag = "Stats")
        /\ last.kind = "FPMB_STATS_PKT" => (last.ret = "Some" /\ last.tag = "MBStats")
        /\ last.kind = "PSNR_PKT" => (last.ret = "Some" /\ last.tag = "PSNR")
        /\ last.kind = "CUSTOM_PKT" => (last.ret = "Some" /\ last.tag = "Custom")
        /\ last.kind = "UNKNOWN" => (last.ret = "Panic" /\ last.tag = "na")

\* C12 witness: a per-macroblock statistics record drained as MBStats
C12_Witness ==
    /\ last.op = "get_packet" /\ last.kind = "FPMB_STATS_PKT" /\ last.tag = "MBStats"

C15_DecodeEmptyIsFlush ==
    (last.op = "decode" /\ last.len = 0 /\ last.user = NULL) =>
        /\ last.data = "null"
        /\ last.freed = "no"
        /\ last.ret \in {"Ok", "Err"}

\* C15 amended: decoder flush makes one native decode call with a null byte
\* pointer, zero length and a null user pointer, leaves the cursor null, reclaims
\* nothing and returns Ok for OK and Err(code) otherwise; decode never passes a
\* null byte pointer.
C15_FlushIsEndOfStreamCall ==
    /\ (session = "decoder" /\ last.op = "flush") =>
          /\ last.ncalls = 1
          /\ last.data = "null" /\ last.len = 0 /\ last.user = NULL
          /\ last.freed = "no"
          /\ dIter = NULL
          /\ last.code = AOM_CODEC_OK => last.ret = "Ok"
          /\ last.code # AOM_CODEC_OK => (last.ret = "Err" /\ last.err = last.code)
    /\ last.op = "decode" => last.data = "nonnull"

\* C15 witness: a decoder flush the engine rejected, entered in mid-drain
C15_Witness ==
    /\ session = "decoder" /\ last.op = "flush"
    /\ last.code # AOM_CODEC_OK /\ last.curIn # NULL

\* C16: an item a drain call returned holds no native pointer, and reading it
\* gives its contents after every later input, drain, flush or teardown call.
C16_ReturnedItemsOwned ==
    kept.how # "none" => (kept.how = "copy" /\ Read(kept) = "intact")

\* C16 witness: a picture still held when the decoder has been released
C16_Witness ==
    /\ session = "decoder" /\ kept.how = "copy" /\ kept.nat = "gone"
    /\ last.op = "dec_drop"

\* C16 witness of the encoder: a blob held across a later accepted encode
C16_WitnessPacket ==
    /\ session = "encoder" /\ kept.how = "copy" /\ kept.nat = "gone"
    /\ last.op = "encode" /\ last.ret = "Ok"

\* C17: a decode without user data allocates no box and reclaims none, also
\* when the native call fails.
C17_NoReclaimWithoutUserData ==
    (last.op = "decode" /\ last.user = NULL) => last.freed = "no"

\* C18: an encode of a picture of the supported format, with or without a
\* timestamp, makes the native call and returns Ok or Err with the cursor reset.
C18_EncodeReachesNative ==
    (last.op = "encode" /\ last.fmt = "I420") =>
        /\ last.ncalls = 1
        /\ last.ret \in {"Ok", "Err"}
        /\ eIter = NULL
====
